---- MODULE Spec2Model ----
(***************************************************************************)
(* oyako-todo: the points ledger and the reward-redemption workflow.       *)
(*                                                                         *)
(* The backend is one shared relational store (children, tasks,            *)
(* point_transactions, reward_redemptions).  Every browser tab is a        *)
(* session; a handler of a page is a sequence of backend calls, and each   *)
(* backend call (each await) is one atomic step that may also fail.        *)
(***************************************************************************)
EXTENDS Integers, Sequences, FiniteSets, TLC

(***************************************************************************)
(* Bounds of the model.                                                    *)
(***************************************************************************)
\* toggleDone calls started, over all sessions
MaxToggles == 2
\* rows of reward_redemptions (successful exchangeReward inserts)
MaxRedemptions == 1
\* approve calls started on the reward-requests page
MaxApproves == 1
\* the largest number typed into a point field
MaxPoint == 2

(***************************************************************************)
(* Rows that exist from the start: two children of one parent, two tasks   *)
(* of child c1, one active reward of child c1.                             *)
(***************************************************************************)
NULL == "null"
Children == {"c1", "c2"}
Tasks == {"t1", "t2"}
Rewards == {"w1"}
Parent == "u1"

\* tasks.child_id
TaskChild(t) == "c1"
\* tasks.point
TaskPoint(t) == IF t = "t1" THEN 25 ELSE 10
\* rewards.child_id
RewardChild(w) == "c1"
\* rewards.required_points
RequiredPoints(w) == 20

(***************************************************************************)
(* Sessions: one browser tab each, on a fixed page.                        *)
(***************************************************************************)
\* tabs on /child (ChildPage)
ChildSessions == {"k1", "k2"}
\* tabs on /child/rewards (ChildRewardsPage)
RewardSessions == {"q1"}
\* tabs on /parent/reward-requests (RewardRequestsPage)
RequestSessions == {"p1"}
\* tabs on /parent/redemptions (ParentRedemptionsPage)
RedemptionSessions == {"p2"}
\* tabs on the points history page (PointHistoryPage)
HistorySessions == {"h1"}
Sessions == ChildSessions \cup RewardSessions \cup RequestSessions \cup RedemptionSessions

(***************************************************************************)
(* ChildSwitcher: the props the pages give it.                             *)
(***************************************************************************)
\* the tabs whose ChildSwitcher is followed: /child and /parent/redemptions
SwitcherSessions == {"k1", "p2"}
\* allValue = "all"
allValue == "all"
\* includeAll={false} on /child, includeAll={true} on /parent/redemptions
includeAll(s) == s \in RedemptionSessions
\* storageKey
storageKey(s) ==
  IF s \in RedemptionSessions THEN "parent_selected_child_id"
                              ELSE "child_selected_child_id"
StorageKeys == {"child_selected_child_id", "parent_selected_child_id"}
\* children in the order of created_at
CreatedOrder == <<"c1", "c2">>

VARIABLES
  \* ---- the backend ----
  points,              \* children.points, per child
  is_done,             \* tasks.is_done, per task
  point_transactions,  \* the ledger, in insertion order
  reward_redemptions,  \* reward_redemptions, index = id, in requested_at order
  task_point,          \* tasks.point: the values of the rows persisted so far
  children,            \* the ids of the rows of children
  \* ---- the pages ----
  selectedChildId,     \* per session: the child chosen in ChildSwitcher
  tasks,               \* ChildPage: local copy of is_done per task
  pointsMap,           \* ChildPage / ChildRewardsPage: local copy of points
  list,                \* RewardRequestsPage: pending rows fetched last, as returned
  items,               \* ParentRedemptionsPage: pending rows fetched last
  rows,                \* PointHistoryPage: ledger rows fetched on mount
  point,               \* the task forms: the point state of each of the three
  localStorage,        \* the browser's localStorage, per key
  switcher,            \* per session: loading, children and value of ChildSwitcher
  pc,                  \* per session: the backend call the handler is at
  call,                \* per session: the locals of the running handler
  result,              \* what the last step told its user: [s |-> session, res |-> message]
  \* ---- bookkeeping of the bounds ----
  nToggles,
  nApproves

db == <<points, is_done, point_transactions, reward_redemptions, task_point, children>>
pages == <<selectedChildId, tasks, pointsMap, list, items, rows, point, localStorage,
          switcher>>
counters == <<nToggles, nApproves>>
vars == <<points, is_done, point_transactions, reward_redemptions, task_point, children,
          selectedChildId, tasks, pointsMap, list, items, rows, point, localStorage,
          switcher, pc, call, result,
          nToggles, nApproves>>

\* a value NumberInput hands to onChange: a number, or the text of the field
Num(n) == [t |-> "number", n |-> n]
Str(str) == [t |-> "string", s |-> str]

\* useState of the three task forms: the create page (1), the modal of the
\* task list (10), the edit page (1 until the task is loaded)
FormsOnMount == [create |-> 1, modal |-> Num(10), edit |-> 1]

\* useState of ChildSwitcher: loading, the fetched children, the value
SwitcherOnMount == [loading |-> TRUE, children |-> <<>>, value |-> ""]

\* ChildSwitcher of a page whose selection is sel: still loading when nothing
\* is selected, otherwise loaded with both children and showing sel
SwitcherOf(sel) ==
  IF sel = "" THEN SwitcherOnMount
  ELSE [loading |-> FALSE, children |-> CreatedOrder, value |-> sel]

\* Math.max
Max(a, b) == IF a >= b THEN a ELSE b

NoCall == [task |-> NULL, nextDone |-> FALSE, delta |-> 0, childRow |-> 0,
           newPoints |-> 0, r |-> 0]

\* notifications.show / alert: the step tells the user of session s res
Shows(s, res) == [s |-> s, res |-> res]

\* the step shows nothing
Quiet == [s |-> NULL, res |-> "none"]

\* a handler returns: its locals are gone, res is what it told the user
Return(s, res) ==
  /\ pc' = [pc EXCEPT ![s] = "idle"]
  /\ call' = [call EXCEPT ![s] = NoCall]
  /\ result' = IF res = "none" THEN Quiet ELSE Shows(s, res)

(***************************************************************************)
(* Init: the database right after the parent has registered the children,  *)
(* the tasks and the reward, and every page has finished its first load.   *)
(***************************************************************************)
Init ==
  /\ points = [c \in Children |-> 0]
  /\ is_done = [t \in Tasks |-> FALSE]
  /\ point_transactions = <<>>
  /\ reward_redemptions = <<>>
  /\ selectedChildId = [s \in Sessions |->
        IF s \in RedemptionSessions THEN "all" ELSE "c1"]
  /\ tasks = [s \in ChildSessions |-> [t \in Tasks |-> FALSE]]
  /\ pointsMap = [s \in ChildSessions \cup RewardSessions |-> [c \in Children |-> 0]]
  /\ list = [s \in RequestSessions |-> <<>>]
  /\ items = [s \in RedemptionSessions |-> <<>>]
  /\ rows = [s \in HistorySessions |-> <<>>]
  /\ point = FormsOnMount
  /\ task_point = {TaskPoint(t) : t \in Tasks}
  /\ children = Children
  /\ localStorage = [k \in StorageKeys |-> NULL]
  /\ switcher = [s \in SwitcherSessions |-> SwitcherOf(selectedChildId[s])]
  /\ pc = [s \in Sessions |-> "idle"]
  /\ call = [s \in Sessions |-> NoCall]
  /\ result = Quiet
  /\ nToggles = 0
  /\ nApproves = 0

(***************************************************************************)
(* ChildPage (src/app/child/page.tsx)                                      *)
(***************************************************************************)
toggleDoneUnguarded(s, t) ==
  /\ pc[s] = "idle"
  /\ nToggles < MaxToggles
  /\ nToggles' = nToggles + 1
  /\ pc' = [pc EXCEPT ![s] = "rpc"]
  /\ call' = [call EXCEPT ![s] =
       [NoCall EXCEPT !.task = t,
                      !.nextDone = ~tasks[s][t],
                      !.delta = IF ~tasks[s][t] THEN TaskPoint(t) ELSE -TaskPoint(t)]]
  /\ result' = Quiet
  /\ UNCHANGED <<db, pages, nApproves>>

\* toggleDone(task), up to its first call that writes: the guards, nextDone
\* and delta computed from the page's own copy of the task, and
\* supabase.auth.getUser(), after which it returns without a word when there
\* is no user
toggleDone(s, t) ==
  /\ pc[s] = "idle"
  /\ nToggles < MaxToggles
  /\ nToggles' = nToggles + 1
  /\ IF selectedChildId[s] = "" \/ TaskChild(t) # selectedChildId[s]
       THEN /\ result' = Shows(s, "refused")
            /\ UNCHANGED <<pc, call>>
       ELSE \/ /\ pc' = [pc EXCEPT ![s] = "rpc"]
               /\ call' = [call EXCEPT ![s] =
                    [NoCall EXCEPT !.task = t,
                                   !.nextDone = ~tasks[s][t],
                                   !.delta = IF ~tasks[s][t] THEN TaskPoint(t)
                                                             ELSE -TaskPoint(t)]]
               /\ result' = Quiet
            \/ /\ result' = Quiet
               /\ UNCHANGED <<pc, call>>
  /\ UNCHANGED <<db, pages, nApproves>>

\* ChildSwitcher onChange: setSelectedChildId(id).  A running toggleDone keeps
\* the selection it was called with, so the selection changes between calls.
onChange(s, id) ==
  /\ pc[s] = "idle"
  /\ selectedChildId[s] # id
  /\ selectedChildId' = [selectedChildId EXCEPT ![s] = id]
  /\ result' = Quiet
  /\ UNCHANGED <<db, tasks, pointsMap, list, items, pc, call, rows, point, counters,
                 localStorage, switcher>>

\* the server-side function toggle_task_done(p_task_id, p_is_done)
toggle_task_done(done, p_task_id, p_is_done) ==
  [done EXCEPT ![p_task_id] = p_is_done]

\* (1) supabase.rpc("toggle_task_done"), and the return on its error
ToggleRpc(s) ==
  /\ pc[s] = "rpc"
  /\ \/ /\ is_done' = toggle_task_done(is_done, call[s].task, call[s].nextDone)
        /\ pc' = [pc EXCEPT ![s] = "read"]
        /\ result' = Quiet
        /\ UNCHANGED call
     \/ /\ Return(s, "StorageFailure")
        /\ UNCHANGED is_done
  /\ UNCHANGED <<points, point_transactions, reward_redemptions, pages, counters, task_point,
                 children>>

\* (2) select points of the selected child, and the return on its error
ToggleRead(s) ==
  /\ pc[s] = "read"
  /\ \/ /\ call' = [call EXCEPT ![s].childRow = points[selectedChildId[s]]]
        /\ pc' = [pc EXCEPT ![s] = "write"]
        /\ result' = Quiet
     \/ Return(s, "StorageFailure")
  /\ UNCHANGED <<db, pages, counters>>

NewPointsUnclamped(childRowPoints, delta) == childRowPoints + delta

\* const newPoints = Math.max(0, (childRow.points ?? 0) + delta)
NewPoints(childRowPoints, delta) == Max(0, childRowPoints + delta)

ToggleWriteEveryChild(s) ==
  /\ pc[s] = "write"
  /\ LET newPoints == NewPoints(call[s].childRow, call[s].delta) IN
     \/ /\ points' = [c \in Children |-> newPoints]
        /\ call' = [call EXCEPT ![s].newPoints = newPoints]
        /\ pc' = [pc EXCEPT ![s] = "insert"]
        /\ result' = Quiet
     \/ /\ Return(s, "StorageFailure")
        /\ UNCHANGED points
  /\ UNCHANGED <<is_done, point_transactions, reward_redemptions, pages, counters, task_point,
                 children>>

\* (3) update children set points = newPoints, and the return on its error
ToggleWrite(s) ==
  /\ pc[s] = "write"
  /\ LET newPoints == NewPoints(call[s].childRow, call[s].delta) IN
     \/ /\ points' = [points EXCEPT ![selectedChildId[s]] = newPoints]
        /\ call' = [call EXCEPT ![s].newPoints = newPoints]
        /\ pc' = [pc EXCEPT ![s] = "insert"]
        /\ result' = Quiet
     \/ /\ Return(s, "StorageFailure")
        /\ UNCHANGED points
  /\ UNCHANGED <<is_done, point_transactions, reward_redemptions, pages, counters, task_point,
                 children>>

TaskEntryAlwaysDone(s) ==
  [child_id |-> selectedChildId[s],
   task_id |-> NULL,
   reward_redemption_id |-> 0,
   type |-> "task_done",
   points |-> call[s].delta]

\* the row toggleDone inserts into point_transactions
TaskEntry(s) ==
  [child_id |-> selectedChildId[s],
   task_id |-> NULL,
   reward_redemption_id |-> 0,
   type |-> IF call[s].nextDone THEN "task_done" ELSE "task_undo",
   points |-> call[s].delta]

ToggleInsertOverwrite(s) ==
  /\ pc[s] = "insert"
  /\ \/ /\ point_transactions' = <<TaskEntry(s)>>
        /\ tasks' = [tasks EXCEPT ![s][call[s].task] = call[s].nextDone]
        /\ pointsMap' = [pointsMap EXCEPT ![s][selectedChildId[s]] = call[s].newPoints]
        /\ Return(s, "success")
     \/ /\ Return(s, "StorageFailure")
        /\ UNCHANGED <<point_transactions, tasks, pointsMap>>
  /\ UNCHANGED <<points, is_done, reward_redemptions, selectedChildId, list, items,
                 rows, point, counters, task_point,
                 children, localStorage, switcher>>

\* (4) insert into point_transactions; on success setTasks and setPointsMap
ToggleInsert(s) ==
  /\ pc[s] = "insert"
  /\ \/ /\ point_transactions' = Append(point_transactions, TaskEntry(s))
        /\ tasks' = [tasks EXCEPT ![s][call[s].task] = call[s].nextDone]
        /\ pointsMap' = [pointsMap EXCEPT ![s][selectedChildId[s]] = call[s].newPoints]
        /\ Return(s, "success")
     \/ /\ Return(s, "StorageFailure")
        /\ UNCHANGED <<point_transactions, tasks, pointsMap>>
  /\ UNCHANGED <<points, is_done, reward_redemptions, selectedChildId, list, items,
                 rows, point, counters, task_point,
                 children, localStorage, switcher>>

(***************************************************************************)
(* ChildRewardsPage (src/unnamed/part_002)                                 *)
(***************************************************************************)
\* load(): children (with points) are fetched on mount
RewardsPageLoad(s) ==
  /\ pointsMap' = [pointsMap EXCEPT ![s] = points]
  /\ result' = Quiet
  /\ UNCHANGED <<db, selectedChildId, tasks, list, items, pc, call, rows, point, counters,
                 localStorage, switcher>>

NewRedemptionApproved(c, w) ==
  [child_id |-> c, reward_id |-> w, status |-> "approved",
   handled_by |-> NULL, handled_at |-> NULL]

\* a new row of reward_redemptions
NewRedemption(c, w) ==
  [child_id |-> c, reward_id |-> w, status |-> "pending",
   handled_by |-> NULL, handled_at |-> NULL]

\* exchangeReward(reward): the guards on the page's own copy of the points,
\* then the insert of a pending row
exchangeReward(s, w) ==
  /\ Len(reward_redemptions) < MaxRedemptions
  /\ selectedChildId[s] = "" \/ RewardChild(w) = selectedChildId[s]
  /\ IF selectedChildId[s] = ""
       THEN /\ result' = Shows(s, "refused")
            /\ UNCHANGED reward_redemptions
       ELSE IF pointsMap[s][selectedChildId[s]] < RequiredPoints(w)
       THEN /\ result' = Shows(s, "refused")
            /\ UNCHANGED reward_redemptions
       ELSE \/ /\ reward_redemptions' =
                    Append(reward_redemptions, NewRedemption(selectedChildId[s], w))
               /\ result' = Shows(s, "success")
            \/ /\ result' = Shows(s, "StorageFailure")
               /\ UNCHANGED reward_redemptions
  /\ UNCHANGED <<points, is_done, point_transactions, pages, pc, call, counters, task_point,
                 children>>

(***************************************************************************)
(* The task forms: the create page (src/app/tasks/create/page.tsx), the    *)
(* modal of the task list (src/app/tasks/page.tsx) and the edit page       *)
(* (src/unnamed/part_001).  The other required fields are filled in.       *)
(***************************************************************************)
\* what the NumberInput with min = 1 hands to onChange: a number from 1 on,
\* the empty text of a cleared field, or the text of a number being typed
Emitted == {Str(""), Str("-")} \cup {Num(k) : k \in 1..MaxPoint}

\* Number(value) of a text: 0 for the empty text, NaN for "-"
Number(value) ==
  IF value.s = "" THEN [nan |-> FALSE, n |-> 0] ELSE [nan |-> TRUE, n |-> 0]

\* create page, onChange: num = typeof value === 'number' ? value : Number(value);
\* setPoint(Number.isNaN(num) ? 1 : num)
CreateConvert(value) ==
  LET num == IF value.t = "number" THEN [nan |-> FALSE, n |-> value.n]
             ELSE Number(value)
  IN IF num.nan THEN 1 ELSE num.n

CreateOnChange(value) ==
  /\ point' = [point EXCEPT !.create = CreateConvert(value)]
  /\ result' = Quiet
  /\ UNCHANGED <<db, selectedChildId, tasks, pointsMap, list, items, rows, pc, call,
                 counters,
                 localStorage, switcher>>

\* create page, handleCreate: the insert of the row (its outcome is not looked
\* at), or the return without a user
handleCreate ==
  /\ \/ task_point' = task_point \cup {point.create}
     \/ UNCHANGED task_point
  /\ result' = Quiet
  /\ UNCHANGED <<points, is_done, point_transactions, reward_redemptions, pages, pc,
                 call, counters,
                 children>>

\* modal, onChange: setPoint(typeof v === "number" ? v : "")
ModalOnChange(v) ==
  /\ point' = [point EXCEPT !.modal = IF v.t = "number" THEN v ELSE Str("")]
  /\ result' = Quiet
  /\ UNCHANGED <<db, selectedChildId, tasks, pointsMap, list, items, rows, pc, call,
                 counters,
                 localStorage, switcher>>

\* modal, createTask: returns when point === ""; the insert, and on success the
\* reset of the form (setPoint(10))
createTask ==
  /\ point.modal.t = "number"
  /\ \/ /\ task_point' = task_point \cup {point.modal.n}
        /\ point' = [point EXCEPT !.modal = Num(10)]
     \/ UNCHANGED <<task_point, point>>
  /\ result' = Quiet
  /\ UNCHANGED <<points, is_done, point_transactions, reward_redemptions,
                 selectedChildId, tasks, pointsMap, list, items, rows, pc, call,
                 counters,
                 children, localStorage, switcher>>

\* edit page, load(): setPoint(data.point) of the task being edited
EditLoad ==
  /\ \E p \in task_point : point' = [point EXCEPT !.edit = p]
  /\ result' = Quiet
  /\ UNCHANGED <<db, selectedChildId, tasks, pointsMap, list, items, rows, pc, call,
                 counters,
                 localStorage, switcher>>

\* edit page, onChange: setPoint(typeof v === "number" ? v : point)
EditOnChange(v) ==
  /\ point' = [point EXCEPT !.edit = IF v.t = "number" THEN v.n ELSE @]
  /\ result' = Quiet
  /\ UNCHANGED <<db, selectedChildId, tasks, pointsMap, list, items, rows, pc, call,
                 counters,
                 localStorage, switcher>>

\* edit page, handleSave: update tasks set point = point, or its failure
handleSave ==
  /\ \/ task_point' = task_point \cup {point.edit}
     \/ UNCHANGED task_point
  /\ result' = Quiet
  /\ UNCHANGED <<points, is_done, point_transactions, reward_redemptions, pages, pc,
                 call, counters,
                 children>>

(***************************************************************************)
(* ChildSwitcher (src/app/(components)/ChildSwitcher.tsx), on the child    *)
(* page and on the redemptions page, and the delete of a child on the      *)
(* child's edit page (src/unnamed/part_003).  The page's callback          *)
(* (id) => setSelectedChildId(id) runs within the step that reports.       *)
(***************************************************************************)
\* the page of tab s is opened again: the useState values of ChildSwitcher
\* and of the page's selectedChildId; the effect of ChildSwitcher starts
Mount(s) ==
  /\ ~switcher[s].loading
  /\ pc[s] = "idle"
  /\ switcher' = [switcher EXCEPT ![s] = SwitcherOnMount]
  /\ selectedChildId' = [selectedChildId EXCEPT ![s] =
        IF s \in RedemptionSessions THEN "all" ELSE ""]
  /\ result' = Quiet
  /\ UNCHANGED <<db, tasks, pointsMap, list, items, rows, point, localStorage, pc, call,
                 counters>>

\* select id, name from children order by created_at
ChildrenData == SelectSeq(CreatedOrder, LAMBDA c : c \in children)

\* const next = saved && (includeAll ? true : saved !== allValue) ? saved
\*            : includeAll ? allValue : list[0]?.id ?? ""
InitialValue(saved, withAll, fetched) ==
  IF saved # NULL /\ saved # "" /\ (IF withAll THEN TRUE ELSE saved # allValue)
    THEN saved
    ELSE IF withAll THEN allValue
    ELSE IF Len(fetched) > 0 THEN fetched[1] ELSE ""

\* the effect of ChildSwitcher: the fetch of the children; on its error
\* setChildren([]) and nothing is reported, otherwise the initial value is
\* computed from localStorage and the fetched list, set and reported
SwitcherLoad(s) ==
  /\ switcher[s].loading
  /\ \/ /\ switcher' = [switcher EXCEPT ![s].children = <<>>, ![s].loading = FALSE]
        /\ UNCHANGED selectedChildId
     \/ LET fetched == ChildrenData
            saved == localStorage[storageKey(s)]
            next == InitialValue(saved, includeAll(s), fetched)
        IN /\ switcher' = [switcher EXCEPT ![s] =
                 [loading |-> FALSE, children |-> fetched, value |-> next]]
           /\ selectedChildId' = [selectedChildId EXCEPT ![s] = next]
  /\ result' = Quiet
  /\ UNCHANGED <<db, tasks, pointsMap, list, items, rows, point, localStorage, pc, call,
                 counters>>

\* the options of the SegmentedControl: "all" first when includeAll, then the
\* fetched children
SegmentData(s) ==
  (IF includeAll(s) THEN {allValue} ELSE {}) \cup
  {switcher[s].children[i] : i \in DOMAIN switcher[s].children}

\* SegmentedControl onChange: setValue(v); localStorage.setItem(storageKey, v);
\* onChange?.(v)
SegmentedOnChange(s, v) ==
  /\ ~switcher[s].loading
  /\ pc[s] = "idle"
  /\ v \in SegmentData(s)
  /\ v # switcher[s].value
  /\ switcher' = [switcher EXCEPT ![s].value = v]
  /\ localStorage' = [localStorage EXCEPT ![storageKey(s)] = v]
  /\ selectedChildId' = [selectedChildId EXCEPT ![s] = v]
  /\ result' = Quiet
  /\ UNCHANGED <<db, tasks, pointsMap, list, items, rows, point, pc, call, counters>>

\* handleDelete of the child's edit page: delete from children where id =
\* childId, or its error.  The parent keeps one child at least.
handleDelete(childId) ==
  /\ childId \in children
  /\ Cardinality(children) > 1
  /\ \/ children' = children \ {childId}
     \/ UNCHANGED children
  /\ result' = Quiet
  /\ UNCHANGED <<points, is_done, point_transactions, reward_redemptions, task_point,
                 pages, pc, call, counters>>

(***************************************************************************)
(* PointHistoryPage (src/unnamed/part_002)                                 *)
(***************************************************************************)
RECURSIVE RowsOf(_, _)
\* the ids of the first n ledger rows whose child_id is id, by created_at
\* descending
RowsOf(id, n) ==
  IF n = 0 THEN <<>>
  ELSE IF point_transactions[n].child_id = id
       THEN <<n>> \o RowsOf(id, n - 1)
       ELSE RowsOf(id, n - 1)

\* the select of load(): .eq("child_id", user.id).order("created_at", descending)
HistoryData(user) == RowsOf(user, Len(point_transactions))

\* load(): the signed-in user is the parent account that owns the children;
\* setRows(data), or setRows([]) when the query fails, or nothing without a user
HistoryLoad(s) ==
  /\ \/ rows' = [rows EXCEPT ![s] = HistoryData(Parent)]
     \/ rows' = [rows EXCEPT ![s] = <<>>]
     \/ UNCHANGED rows
  /\ result' = Quiet
  /\ UNCHANGED <<db, selectedChildId, tasks, pointsMap, list, items, point, pc, call,
                 counters,
                 localStorage, switcher>>

(***************************************************************************)
(* RewardRequestsPage (src/app/parent/reward-requests/page.tsx)            *)
(***************************************************************************)
\* select ... from reward_redemptions where status = 'pending'
PendingIds == {id \in DOMAIN reward_redemptions : reward_redemptions[id].status = "pending"}

\* the orders in which a select without an order clause may return the rows ids
Orders(ids) ==
  {q \in [1..Cardinality(ids) -> ids] : \A i, j \in DOMAIN q : i # j => q[i] # q[j]}

\* what the page's select of the pending rows may yield: the pending rows in
\* any order, or nothing when the query fails (data || [])
PendingData == Orders(PendingIds) \cup {<<>>}

\* init(): setList(data || [])
RequestsInit(s) ==
  /\ pc[s] = "idle"
  /\ \E data \in PendingData : list' = [list EXCEPT ![s] = data]
  /\ result' = Quiet
  /\ UNCHANGED <<db, selectedChildId, tasks, pointsMap, items, pc, call, rows, point, counters,
                 localStorage, switcher>>

\* approve(r), (1): update reward_redemptions set status = 'approved' where
\* id = r.id; the outcome of the call is not looked at
ApproveUpdate(s, r) ==
  /\ pc[s] = "idle"
  /\ \E i \in DOMAIN list[s] : list[s][i] = r
  /\ nApproves < MaxApproves
  /\ nApproves' = nApproves + 1
  /\ \/ reward_redemptions' = [reward_redemptions EXCEPT ![r].status = "approved"]
     \/ UNCHANGED reward_redemptions
  /\ pc' = [pc EXCEPT ![s] = "insert"]
  /\ call' = [call EXCEPT ![s] = [NoCall EXCEPT !.r = r]]
  /\ result' = Quiet
  /\ UNCHANGED <<points, is_done, point_transactions, pages, nToggles, task_point,
                 children>>

\* the row approve inserts into point_transactions
SpendEntry(r) ==
  [child_id |-> reward_redemptions[r].child_id,
   task_id |-> NULL,
   reward_redemption_id |-> r,
   type |-> "spend",
   points |-> -RequiredPoints(reward_redemptions[r].reward_id)]

\* approve(r), (2): insert into point_transactions; the outcome is not looked at
ApproveInsert(s) ==
  /\ pc[s] = "insert"
  /\ \/ point_transactions' = Append(point_transactions, SpendEntry(call[s].r))
     \/ UNCHANGED point_transactions
  /\ pc' = [pc EXCEPT ![s] = "refetch"]
  /\ result' = Quiet
  /\ UNCHANGED <<points, is_done, reward_redemptions, pages, call, counters, task_point,
                 children>>

\* approve(r), (3): the pending rows are fetched again (data || [])
ApproveRefetch(s) ==
  /\ pc[s] = "refetch"
  /\ \E data \in PendingData : list' = [list EXCEPT ![s] = data]
  /\ Return(s, "none")
  /\ UNCHANGED <<db, selectedChildId, tasks, pointsMap, items, rows, point, counters,
                 localStorage, switcher>>

(***************************************************************************)
(* ParentRedemptionsPage (src/app/parent/redemptions/page.tsx)             *)
(***************************************************************************)
RECURSIVE PendingFrom(_)
\* the ids of the pending rows from id on, by requested_at ascending
PendingFrom(id) ==
  IF id > Len(reward_redemptions) THEN <<>>
  ELSE IF reward_redemptions[id].status = "pending"
       THEN <<id>> \o PendingFrom(id + 1)
       ELSE PendingFrom(id + 1)

\* fetchRows(): .eq("status", "pending").order("requested_at", ascending)
fetchRows == PendingFrom(1)

\* the effect on mount: setItems(rows), or an alert when fetchRows throws
RedemptionsPageLoad(s) ==
  /\ pc[s] = "idle"
  /\ \/ /\ items' = [items EXCEPT ![s] = fetchRows]
        /\ result' = Quiet
     \/ /\ result' = Shows(s, "StorageFailure")
        /\ UNCHANGED items
  /\ UNCHANGED <<db, selectedChildId, tasks, pointsMap, list, pc, call, rows, point, counters,
                 localStorage, switcher>>

\* reload(), started by approve and reject and not awaited
reload(s) ==
  /\ pc[s] = "reload"
  /\ \/ /\ items' = [items EXCEPT ![s] = fetchRows]
        /\ result' = Quiet
     \/ /\ result' = Shows(s, "StorageFailure")
        /\ UNCHANGED items
  /\ pc' = [pc EXCEPT ![s] = "idle"]
  /\ UNCHANGED <<db, selectedChildId, tasks, pointsMap, list, call, rows, point, counters,
                 localStorage, switcher>>

\* visibleItems: all rows for "all", else the rows of the selected child
visibleItems(s) ==
  IF selectedChildId[s] = "all" THEN items[s]
  ELSE SelectSeq(items[s], LAMBDA id : reward_redemptions[id].child_id = selectedChildId[s])

\* the server-side function approve_reward_redemption(p_redemption_id): the
\* status check, the balance check, the debit, the ledger row and the status
\* update in one transaction
approve_reward_redemption(id) ==
  LET row == reward_redemptions[id]
      cost == RequiredPoints(row.reward_id)
      unchanged(e) == [error |-> e, points |-> points,
                       point_transactions |-> point_transactions,
                       reward_redemptions |-> reward_redemptions]
  IN IF row.status # "pending" THEN unchanged("InvalidState")
     ELSE IF points[row.child_id] < cost THEN unchanged("InsufficientBalance")
     ELSE [error |-> NULL,
           points |-> [points EXCEPT ![row.child_id] = @ - cost],
           point_transactions |-> Append(point_transactions,
              [child_id |-> row.child_id, task_id |-> NULL,
               reward_redemption_id |-> id, type |-> "redemption_spend",
               points |-> -cost]),
           reward_redemptions |-> [reward_redemptions EXCEPT
              ![id].status = "approved",
              ![id].handled_by = Parent,
              ![id].handled_at = "now"]]

\* the server-side function reject_reward_redemption(p_redemption_id)
reject_reward_redemption(id) ==
  LET row == reward_redemptions[id] IN
  IF row.status # "pending"
    THEN [error |-> "InvalidState", reward_redemptions |-> reward_redemptions]
    ELSE [error |-> NULL,
          reward_redemptions |-> [reward_redemptions EXCEPT
             ![id].status = "rejected",
             ![id].handled_by = Parent,
             ![id].handled_at = "now"]]

\* is id one of the rows the page shows
Shown(s, id) == \E i \in DOMAIN visibleItems(s) : visibleItems(s)[i] = id

\* approve(id): the rpc; an alert on error, else the notification and reload()
approve(s, id) ==
  /\ pc[s] \in {"idle", "reload"}
  /\ Shown(s, id)
  /\ \/ LET out == approve_reward_redemption(id) IN
          /\ points' = out.points
          /\ point_transactions' = out.point_transactions
          /\ reward_redemptions' = out.reward_redemptions
          /\ IF out.error = NULL
               THEN /\ result' = Shows(s, "success")
                    /\ pc' = [pc EXCEPT ![s] = "reload"]
               ELSE /\ result' = Shows(s, out.error)
                    /\ UNCHANGED pc
     \/ /\ result' = Shows(s, "StorageFailure")
        /\ UNCHANGED <<points, point_transactions, reward_redemptions, pc>>
  /\ UNCHANGED <<is_done, pages, call, counters, task_point,
                 children>>

rejectCallsApprove(s, id) ==
  /\ pc[s] \in {"idle", "reload"}
  /\ Shown(s, id)
  /\ LET out == approve_reward_redemption(id) IN
       /\ points' = out.points
       /\ point_transactions' = out.point_transactions
       /\ reward_redemptions' = out.reward_redemptions
       /\ IF out.error = NULL
            THEN /\ result' = Shows(s, "success")
                 /\ pc' = [pc EXCEPT ![s] = "reload"]
            ELSE /\ result' = Shows(s, out.error)
                 /\ UNCHANGED pc
  /\ UNCHANGED <<is_done, pages, call, counters, task_point,
                 children>>

\* reject(id): the rpc; an alert on error, else the notification and reload()
reject(s, id) ==
  /\ pc[s] \in {"idle", "reload"}
  /\ Shown(s, id)
  /\ \/ LET out == reject_reward_redemption(id) IN
          /\ reward_redemptions' = out.reward_redemptions
          /\ IF out.error = NULL
               THEN /\ result' = Shows(s, "success")
                    /\ pc' = [pc EXCEPT ![s] = "reload"]
               ELSE /\ result' = Shows(s, out.error)
                    /\ UNCHANGED pc
     \/ /\ result' = Shows(s, "StorageFailure")
        /\ UNCHANGED <<reward_redemptions, pc>>
  /\ UNCHANGED <<points, is_done, point_transactions, pages, call, counters, task_point,
                 children>>

(***************************************************************************)
(* The system with one tab open on every page: the handlers of the four    *)
(* pages run in any interleaving of their backend calls.                   *)
(***************************************************************************)
OneChildTab == {"k1"}

Next ==
  \/ \E s \in OneChildTab, t \in Tasks : toggleDone(s, t)
  \/ \E s \in OneChildTab : ToggleRpc(s)
  \/ \E s \in OneChildTab : ToggleRead(s)
  \/ \E s \in OneChildTab : ToggleWrite(s)
  \/ \E s \in OneChildTab : ToggleInsert(s)
  \/ \E s \in RewardSessions : RewardsPageLoad(s)
  \/ \E s \in RewardSessions, w \in Rewards : exchangeReward(s, w)
  \/ \E s \in RequestSessions : RequestsInit(s)
  \/ \E s \in RequestSessions, r \in DOMAIN reward_redemptions : ApproveUpdate(s, r)
  \/ \E s \in RequestSessions : ApproveInsert(s)
  \/ \E s \in RequestSessions : ApproveRefetch(s)
  \/ \E s \in RedemptionSessions : RedemptionsPageLoad(s)
  \/ \E s \in RedemptionSessions : reload(s)
  \/ \E s \in RedemptionSessions, id \in DOMAIN reward_redemptions : approve(s, id)
  \/ \E s \in RedemptionSessions, id \in DOMAIN reward_redemptions : reject(s, id)

Spec == Init /\ [][Next]_vars

(***************************************************************************)
(* The pages that write children.points, or create the rows those writes   *)
(* depend on: the child page (toggleDone), the rewards page                *)
(* (exchangeReward) and the redemptions page (approve, reject).  The       *)
(* reward-requests page never writes children.points.                      *)
(***************************************************************************)
NextPoints ==
  \/ \E s \in OneChildTab, t \in Tasks : toggleDone(s, t)
  \/ \E s \in OneChildTab : ToggleRpc(s)
  \/ \E s \in OneChildTab : ToggleRead(s)
  \/ \E s \in OneChildTab : ToggleWrite(s)
  \/ \E s \in OneChildTab : ToggleInsert(s)
  \/ \E s \in RewardSessions : RewardsPageLoad(s)
  \/ \E s \in RewardSessions, w \in Rewards : exchangeReward(s, w)
  \/ \E s \in RedemptionSessions : RedemptionsPageLoad(s)
  \/ \E s \in RedemptionSessions : reload(s)
  \/ \E s \in RedemptionSessions, id \in DOMAIN reward_redemptions : approve(s, id)
  \/ \E s \in RedemptionSessions, id \in DOMAIN reward_redemptions : reject(s, id)

SpecPoints == Init /\ [][NextPoints]_vars

(***************************************************************************)
(* Scenario D of the specification: child c1 has completed task t1         *)
(* (balance 25, one task_done entry) and has requested the reward (cost    *)
(* 20) twice; both parent pages have loaded the two pending requests.      *)
(* From here only the parent pages act.                                    *)
(***************************************************************************)
InitD ==
  /\ points = [c \in Children |-> IF c = "c1" THEN TaskPoint("t1") ELSE 0]
  /\ is_done = [t \in Tasks |-> t = "t1"]
  /\ point_transactions =
       <<[child_id |-> "c1", task_id |-> NULL, reward_redemption_id |-> 0,
          type |-> "task_done", points |-> TaskPoint("t1")]>>
  /\ reward_redemptions = <<NewRedemption("c1", "w1"), NewRedemption("c1", "w1")>>
  /\ selectedChildId = [s \in Sessions |->
        IF s \in RedemptionSessions THEN "all" ELSE "c1"]
  /\ tasks = [s \in ChildSessions |-> [t \in Tasks |-> s = "k1" /\ t = "t1"]]
  /\ pointsMap = [s \in ChildSessions \cup RewardSessions |->
        [c \in Children |-> IF c = "c1" /\ s # "k2" THEN TaskPoint("t1") ELSE 0]]
  /\ list = [s \in RequestSessions |-> <<1, 2>>]
  /\ items = [s \in RedemptionSessions |-> <<1, 2>>]
  /\ rows = [s \in HistorySessions |-> <<>>]
  /\ point = FormsOnMount
  /\ task_point = {TaskPoint(t) : t \in Tasks}
  /\ children = Children
  /\ localStorage = [k \in StorageKeys |-> NULL]
  /\ switcher = [s \in SwitcherSessions |-> SwitcherOf(selectedChildId[s])]
  /\ pc = [s \in Sessions |-> "idle"]
  /\ call = [s \in Sessions |-> NoCall]
  /\ result = Quiet
  /\ nToggles = 1
  /\ nApproves = 0

NextD ==
  \/ \E s \in RequestSessions : RequestsInit(s)
  \/ \E s \in RequestSessions, r \in DOMAIN reward_redemptions : ApproveUpdate(s, r)
  \/ \E s \in RequestSessions : ApproveInsert(s)
  \/ \E s \in RequestSessions : ApproveRefetch(s)
  \/ \E s \in RedemptionSessions : RedemptionsPageLoad(s)
  \/ \E s \in RedemptionSessions : reload(s)
  \/ \E s \in RedemptionSessions, id \in DOMAIN reward_redemptions : approve(s, id)
  \/ \E s \in RedemptionSessions, id \in DOMAIN reward_redemptions : reject(s, id)

SpecD == InitD /\ [][NextD]_vars

(***************************************************************************)
(* Two tabs of the child page whose toggleDone calls overlap: a call       *)
(* starts only while every call started before it is still running.        *)
(***************************************************************************)
Running == {s \in Sessions : pc[s] \notin {"idle", "reload"}}

NextTabs ==
  \/ \E s \in ChildSessions, t \in Tasks :
        nToggles = Cardinality(Running) /\ toggleDone(s, t)
  \/ \E s \in ChildSessions : ToggleRpc(s)
  \/ \E s \in ChildSessions : ToggleRead(s)
  \/ \E s \in ChildSessions : ToggleWrite(s)
  \/ \E s \in ChildSessions : ToggleInsert(s)

SpecTabs == Init /\ [][NextTabs]_vars

(***************************************************************************)
(* One tab of the child page on its own: toggleDone calls one after the    *)
(* other, each running to its return before the next starts.  It starts    *)
(* either from Init or from the state in which child c1 has completed task *)
(* t1 (+25) in that tab and has had the reward (cost 20) approved through  *)
(* approve_reward_redemption: balance 5, t1 done.  nToggles counts the     *)
(* calls started from there.                                               *)
(***************************************************************************)
InitSpent ==
  /\ points = [c \in Children |->
        IF c = "c1" THEN TaskPoint("t1") - RequiredPoints("w1") ELSE 0]
  /\ is_done = [t \in Tasks |-> t = "t1"]
  /\ point_transactions =
       <<[child_id |-> "c1", task_id |-> NULL, reward_redemption_id |-> 0,
          type |-> "task_done", points |-> TaskPoint("t1")],
         [child_id |-> "c1", task_id |-> NULL, reward_redemption_id |-> 1,
          type |-> "redemption_spend", points |-> -RequiredPoints("w1")]>>
  /\ reward_redemptions =
       <<[NewRedemption("c1", "w1") EXCEPT !.status = "approved",
                                          !.handled_by = Parent,
                                          !.handled_at = "now"]>>
  /\ selectedChildId = [s \in Sessions |->
        IF s \in RedemptionSessions THEN "all" ELSE "c1"]
  /\ tasks = [s \in ChildSessions |-> [t \in Tasks |-> s = "k1" /\ t = "t1"]]
  /\ pointsMap = [s \in ChildSessions \cup RewardSessions |->
        [c \in Children |-> IF c = "c1" /\ s # "k2" THEN TaskPoint("t1") ELSE 0]]
  /\ list = [s \in RequestSessions |-> <<>>]
  /\ items = [s \in RedemptionSessions |-> <<>>]
  /\ rows = [s \in HistorySessions |-> <<>>]
  /\ point = FormsOnMount
  /\ task_point = {TaskPoint(t) : t \in Tasks}
  /\ children = Children
  /\ localStorage = [k \in StorageKeys |-> NULL]
  /\ switcher = [s \in SwitcherSessions |-> SwitcherOf(selectedChildId[s])]
  /\ pc = [s \in Sessions |-> "idle"]
  /\ call = [s \in Sessions |-> NoCall]
  /\ result = Quiet
  /\ nToggles = 0
  /\ nApproves = 0

InitToggle == Init \/ InitSpent

NextToggle ==
  \/ \E s \in OneChildTab, t \in Tasks : toggleDone(s, t)
  \/ \E s \in OneChildTab : ToggleRpc(s)
  \/ \E s \in OneChildTab : ToggleRead(s)
  \/ \E s \in OneChildTab : ToggleWrite(s)
  \/ \E s \in OneChildTab : ToggleInsert(s)

SpecToggle == InitToggle /\ [][NextToggle]_vars

(***************************************************************************)
(* One tab of the child page from the moment its data is loaded and        *)
(* ChildSwitcher has not yet reported a selection (selectedChildId = ""):  *)
(* the selection changes between toggleDone calls.                         *)
(***************************************************************************)
InitSelect ==
  /\ points = [c \in Children |-> 0]
  /\ is_done = [t \in Tasks |-> FALSE]
  /\ point_transactions = <<>>
  /\ reward_redemptions = <<>>
  /\ selectedChildId = [s \in Sessions |->
        IF s \in RedemptionSessions THEN "all"
        ELSE IF s \in ChildSessions THEN "" ELSE "c1"]
  /\ tasks = [s \in ChildSessions |-> [t \in Tasks |-> FALSE]]
  /\ pointsMap = [s \in ChildSessions \cup RewardSessions |-> [c \in Children |-> 0]]
  /\ list = [s \in RequestSessions |-> <<>>]
  /\ items = [s \in RedemptionSessions |-> <<>>]
  /\ rows = [s \in HistorySessions |-> <<>>]
  /\ point = FormsOnMount
  /\ task_point = {TaskPoint(t) : t \in Tasks}
  /\ children = Children
  /\ localStorage = [k \in StorageKeys |-> NULL]
  /\ switcher = [s \in SwitcherSessions |-> SwitcherOf(selectedChildId[s])]
  /\ pc = [s \in Sessions |-> "idle"]
  /\ call = [s \in Sessions |-> NoCall]
  /\ result = Quiet
  /\ nToggles = 0
  /\ nApproves = 0

NextSelect ==
  \/ \E s \in OneChildTab, id \in Children : onChange(s, id)
  \/ \E s \in OneChildTab, t \in Tasks : toggleDone(s, t)
  \/ \E s \in OneChildTab : ToggleRpc(s)
  \/ \E s \in OneChildTab : ToggleRead(s)
  \/ \E s \in OneChildTab : ToggleWrite(s)
  \/ \E s \in OneChildTab : ToggleInsert(s)

SpecSelect == InitSelect /\ [][NextSelect]_vars

(***************************************************************************)
(* One tab of the child page and the points history page, opened at any    *)
(* moment between the toggleDone calls' backend calls.                     *)
(***************************************************************************)
NextHistory ==
  \/ \E s \in OneChildTab, t \in Tasks : toggleDone(s, t)
  \/ \E s \in OneChildTab : ToggleRpc(s)
  \/ \E s \in OneChildTab : ToggleRead(s)
  \/ \E s \in OneChildTab : ToggleWrite(s)
  \/ \E s \in OneChildTab : ToggleInsert(s)
  \/ \E s \in HistorySessions : HistoryLoad(s)

SpecHistory == Init /\ [][NextHistory]_vars

(***************************************************************************)
(* The parent on the three task forms, in any order of typing and saving.  *)
(***************************************************************************)
NextTasks ==
  \/ \E value \in Emitted : CreateOnChange(value)
  \/ handleCreate
  \/ \E v \in Emitted : ModalOnChange(v)
  \/ createTask
  \/ EditLoad
  \/ \E v \in Emitted : EditOnChange(v)
  \/ handleSave

SpecTasks == Init /\ [][NextTasks]_vars

(***************************************************************************)
(* ChildSwitcher on the child page and on the redemptions page: the pages  *)
(* are opened again, the selection is changed by hand and children are     *)
(* deleted, in any order.                                                  *)
(***************************************************************************)
NextSwitcher ==
  \/ \E s \in SwitcherSessions : Mount(s)
  \/ \E s \in SwitcherSessions : SwitcherLoad(s)
  \/ \E s \in SwitcherSessions, v \in Children \cup {allValue} : SegmentedOnChange(s, v)
  \/ \E childId \in Children : handleDelete(childId)

SpecSwitcher == Init /\ [][NextSwitcher]_vars

(***************************************************************************)
(* Properties                                                              *)
(***************************************************************************)
RECURSIVE SumFrom(_, _)
\* the sum of the deltas of the ledger rows of child c, from row i on
SumFrom(c, i) ==
  IF i > Len(point_transactions) THEN 0
  ELSE (IF point_transactions[i].child_id = c THEN point_transactions[i].points ELSE 0)
       + SumFrom(c, i + 1)

LedgerSum(c) == SumFrom(c, 1)

\* no handler is between two of its backend calls
Quiescent == Running = {}

\* the ledger rows that reference redemption r
SpendRows(r) ==
  {i \in DOMAIN point_transactions : point_transactions[i].reward_redemption_id = r}

Status(r) == reward_redemptions[r].status
Cost(r) == RequiredPoints(reward_redemptions[r].reward_id)
Balance(r) == points[reward_redemptions[r].child_id]

\* C1: whenever every started toggle, request, approve and reject has
\* returned (with or without an error), each child's stored balance is the
\* sum of the deltas of its ledger rows.
C1_BalanceIsLedgerSum ==
  Quiescent => \A c \in Children : points[c] = LedgerSum(c)

\* C2: in every reachable state each redemption has at most one ledger row
\* referencing it, and has one exactly when its status is approved.
C2_AtMostOnceSpend ==
  \A r \in DOMAIN reward_redemptions :
    /\ Cardinality(SpendRows(r)) <= 1
    /\ Cardinality(SpendRows(r)) = 1 <=> Status(r) = "approved"

\* C3: a redemption that is approved or rejected keeps its status in every
\* later step, whichever session takes it.
C3_TerminalStatus ==
  [][\A r \in DOMAIN reward_redemptions :
       Status(r) # "pending" => reward_redemptions'[r].status = Status(r)]_vars

\* an approve call of either parent page reaches the backend for redemption r
ApproveStep(r) ==
  \/ \E s \in RequestSessions : ApproveUpdate(s, r)
  \/ \E s \in RedemptionSessions : approve(s, r)

\* C4: an approve of a pending redemption whose cost exceeds the child's
\* balance leaves the redemption pending and the balance and the ledger
\* unchanged, and reports no success.
C4_UnaffordableApproveFails ==
  [][\A r \in DOMAIN reward_redemptions :
       (Status(r) = "pending" /\ Cost(r) > Balance(r) /\ ApproveStep(r))
       => /\ reward_redemptions'[r].status = "pending"
          /\ UNCHANGED <<points, point_transactions>>
          /\ result'.res # "success"]_vars

Approved == {r \in DOMAIN reward_redemptions : Status(r) = "approved"}

\* C5: in scenario D, once every approve call has returned, the balance is the
\* initial 25 less the cost of every approved redemption, and every approved
\* redemption has exactly one ledger row, of delta -cost and of a spend kind,
\* referencing it.
C5_ApproveDebitsCost ==
  Quiescent =>
    /\ points["c1"] = TaskPoint("t1") - RequiredPoints("w1") * Cardinality(Approved)
    /\ \A r \in Approved :
         /\ Cardinality(SpendRows(r)) = 1
         /\ \A i \in SpendRows(r) :
              /\ point_transactions[i].points = -Cost(r)
              /\ point_transactions[i].type \in {"redemption_spend", "spend"}

\* C6: in scenario D (balance 25, two pending redemptions of cost 20 each),
\* in every interleaving of the approve calls at most one of the two
\* redemptions is approved, and an approval leaves the balance at 5.
C6_OnlyOneAffordable ==
  /\ Cardinality(Approved) <= 1
  /\ Quiescent /\ Approved # {} => points["c1"] = TaskPoint("t1") - RequiredPoints("w1")

\* the ledger row a toggle of task t to done state d owes
OwedEntry(t, d) ==
  [child_id |-> TaskChild(t), task_id |-> NULL, reward_redemption_id |-> 0,
   type |-> IF d THEN "task_done" ELSE "task_undo",
   points |-> IF d THEN TaskPoint(t) ELSE -TaskPoint(t)]

\* C7: every step that flips a task's done flag also commits, in that same
\* step, the balance change and the ledger row of the flip; and every step
\* that adds a task_done or task_undo row flips a done flag.
C7_ToggleAtomic ==
  [][/\ \A t \in Tasks :
          is_done'[t] # is_done[t] =>
            /\ points'[TaskChild(t)] = points[TaskChild(t)] + OwedEntry(t, is_done'[t]).points
            /\ point_transactions' = Append(point_transactions, OwedEntry(t, is_done'[t]))
     /\ (/\ Len(point_transactions') > Len(point_transactions)
         /\ point_transactions'[Len(point_transactions')].type \in {"task_done", "task_undo"})
        => \E t \in Tasks : is_done'[t] # is_done[t]]_vars

\* session s is at a step of an undo of a done task whose point value exceeds
\* the child's balance: the stored one at the first call, the one the call read
\* at the later calls
UndoBeyondBalance(s) ==
  /\ ~call[s].nextDone
  /\ \/ /\ pc[s] = "rpc"
        /\ is_done[call[s].task]
        /\ TaskPoint(call[s].task) > points[selectedChildId[s]]
     \/ /\ pc[s] \in {"write", "insert"}
        /\ TaskPoint(call[s].task) > call[s].childRow

C9_BalanceNonNegative ==
  \A c \in Children : points[c] \in Nat

\* a toggle has just written a balance that would be negative without the clamp
C9_Witness ==
  \E s \in ChildSessions :
    /\ pc[s] = "insert"
    /\ call[s].childRow + call[s].delta < 0
    /\ points[selectedChildId[s]] = 0

\* C10: when both tabs have toggled task t to done in overlapping calls that
\* both succeeded, the point value is applied once: the balance is the point
\* value times the one flip of the stored flag, and the ledger holds one row.
C10_PointAppliedOnce ==
  \A t \in Tasks :
    (Quiescent /\ \A s \in ChildSessions : tasks[s][t])
    => /\ points[TaskChild(t)] = TaskPoint(t)
       /\ Len(point_transactions) = 1

\* C11: when two tabs have toggled two different tasks of child c1 to done in
\* overlapping calls that both succeeded, no balance update is lost: the
\* balance is the initial 0 plus both point values.
C11_NoLostUpdate ==
  \A s1, s2 \in ChildSessions : \A t1, t2 \in Tasks :
    (/\ s1 # s2 /\ t1 # t2
     /\ Quiescent
     /\ tasks[s1][t1] /\ tasks[s2][t2]
     /\ Len(point_transactions) = 2)
    => points["c1"] = TaskPoint(t1) + TaskPoint(t2)

\* a reject call reaches the backend for redemption r
RejectStep(r) == \E s \in RedemptionSessions : reject(s, r)

\* C12: an approve or reject call on a redemption that is already approved or
\* rejected leaves its status, the balances and the ledger unchanged, and the
\* caller is told InvalidState (or that the backend could not be reached).
C12_TerminalCallFails ==
  [][\A r \in DOMAIN reward_redemptions :
       (Status(r) # "pending" /\ (ApproveStep(r) \/ RejectStep(r)))
       => /\ reward_redemptions'[r].status = Status(r)
          /\ UNCHANGED <<points, point_transactions>>
          /\ result'.res \in {"InvalidState", "StorageFailure"}]_vars

\* the state SpecToggle started from, told by the redemption only InitSpent has
StartedSpent == reward_redemptions # <<>>
StartPoints == IF StartedSpent THEN TaskPoint("t1") - RequiredPoints("w1") ELSE 0
StartLen == IF StartedSpent THEN 2 ELSE 0
StartDone(t) == StartedSpent /\ t = "t1"

\* C13: from either starting state, when the tab has made exactly two toggles
\* of the same task t and both succeeded (two new ledger rows of magnitude
\* t's point value), the task is back in its starting done state, the balance
\* is back at its starting value, and the two rows have opposite deltas.
C13_ToggleSymmetry ==
  \A t \in Tasks :
    (/\ Quiescent
     /\ nToggles = 2
     /\ Len(point_transactions) = StartLen + 2
     /\ \A i \in {StartLen + 1, StartLen + 2} :
          point_transactions[i].points \in {TaskPoint(t), -TaskPoint(t)})
    => /\ is_done[t] = StartDone(t)
       /\ points["c1"] = StartPoints
       /\ point_transactions[StartLen + 1].points =
            -point_transactions[StartLen + 2].points

\* the ledger rows of the given type that carry task t's point value
TaskRows(t, type) ==
  {i \in DOMAIN point_transactions :
     /\ point_transactions[i].type = type
     /\ point_transactions[i].points =
          (IF type = "task_done" THEN TaskPoint(t) ELSE -TaskPoint(t))}

\* C14: whenever no toggle is running, every flip of a done flag has its one
\* ledger row: a task is Done exactly when it has one more task_done row of
\* +point than task_undo rows of -point, and every task_done row has a
\* positive delta and every task_undo row a negative one.
C14_OneEntryPerFlip ==
  Quiescent =>
    /\ \A t \in Tasks :
         Cardinality(TaskRows(t, "task_done")) - Cardinality(TaskRows(t, "task_undo"))
           = (IF is_done[t] THEN 1 ELSE 0)
    /\ \A i \in DOMAIN point_transactions :
         /\ point_transactions[i].type = "task_done" => point_transactions[i].points > 0
         /\ point_transactions[i].type = "task_undo" => point_transactions[i].points < 0

\* C15: started from Init, when a toggle of task t has just succeeded after
\* any failed attempts and nothing else was touched, the state is that of one
\* successful toggle: t is Done, the balance is t's point value, and the
\* ledger holds the one task_done row.
C15_RetryIsSafe ==
  \A t \in Tasks :
    (/\ ~StartedSpent
     /\ Quiescent
     /\ result = Shows("k1", "success")
     /\ tasks["k1"][t]
     /\ \A u \in Tasks \ {t} : ~is_done[u] /\ ~tasks["k1"][u])
    => /\ is_done[t]
       /\ points["c1"] = TaskPoint(t)
       /\ point_transactions = <<OwedEntry(t, TRUE)>>

\* C16: a toggleDone call for a task of another child than the selected one,
\* or with no child selected, ends at once with its refusal shown: the step
\* changes no done flag, no balance and no ledger row, and starts no backend
\* call.
C16_ForeignToggleRefused ==
  [][\A s \in ChildSessions : \A t \in Tasks :
       ((selectedChildId[s] = "" \/ TaskChild(t) # selectedChildId[s]) /\ toggleDone(s, t))
       => /\ UNCHANGED <<is_done, points, point_transactions, reward_redemptions>>
          /\ pc'[s] = "idle"
          /\ result' = Shows(s, "refused")]_vars

\* after a completed task the other child was selected and a toggle was refused
C16_Witness ==
  /\ selectedChildId["k1"] = "c2"
  /\ result = Shows("k1", "refused")
  /\ nToggles = 2
  /\ is_done["t1"]
  /\ points["c1"] = TaskPoint("t1")

\* C17: a reject of a pending redemption that reports success sets its status
\* to rejected with the handling parent recorded, appends no ledger row and
\* changes no balance.
C17_RejectFrame ==
  [][\A s \in RedemptionSessions : \A id \in DOMAIN reward_redemptions :
       (Status(id) = "pending" /\ reject(s, id) /\ result' = Shows(s, "success"))
       => /\ reward_redemptions'[id].status = "rejected"
          /\ reward_redemptions'[id].handled_by = Parent
          /\ UNCHANGED <<points, point_transactions>>]_vars

\* a redemption the child could afford has just been rejected
C17_Witness ==
  /\ result = Shows("p2", "success")
  /\ reward_redemptions # <<>>
  /\ reward_redemptions[1].status = "rejected"
  /\ points["c1"] >= RequiredPoints("w1")
  /\ SpendRows(1) = {}

\* C18: an exchangeReward call that reports success adds exactly one row to
\* reward_redemptions, pending and unhandled, for the selected child and the
\* reward, keeps every earlier row, and changes no balance, no ledger row and
\* no done flag.
C18_RequestFrame ==
  [][\A s \in RewardSessions : \A w \in Rewards :
       (exchangeReward(s, w) /\ result' = Shows(s, "success"))
       => /\ reward_redemptions' = Append(reward_redemptions,
               [child_id |-> selectedChildId[s], reward_id |-> w,
                status |-> "pending", handled_by |-> NULL, handled_at |-> NULL])
          /\ UNCHANGED <<points, point_transactions, is_done>>]_vars

\* the reward has just been requested with the points of a completed task
C18_Witness ==
  /\ result = Shows("q1", "success")
  /\ Len(reward_redemptions) = 1
  /\ reward_redemptions[1].status = "pending"
  /\ points["c1"] = TaskPoint("t1")
  /\ Len(point_transactions) = 1

\* C19: every step in which a backend call of toggleDone or of an approve
\* fails shows an error to the user of that session: the approve's status
\* update that leaves a pending row pending, the approve's ledger insert that
\* adds no row, the toggleDone that ends at getUser, and every toggleDone that
\* returns without success.
C19_NoSilentFailure ==
  [][/\ \A s \in RequestSessions : \A r \in DOMAIN reward_redemptions :
          (ApproveUpdate(s, r) /\ Status(r) = "pending"
             /\ reward_redemptions'[r].status = "pending")
          => result' = Shows(s, "StorageFailure")
     /\ \A s \in RequestSessions :
          (ApproveInsert(s) /\ UNCHANGED point_transactions)
          => result' = Shows(s, "StorageFailure")
     /\ \A s \in ChildSessions : \A t \in Tasks :
          (toggleDone(s, t) /\ TaskChild(t) = selectedChildId[s] /\ pc'[s] = "idle")
          => result' = Shows(s, "StorageFailure")
     /\ \A s \in ChildSessions :
          (pc[s] \in {"rpc", "read", "write", "insert"} /\ pc'[s] = "idle"
             /\ result' # Shows(s, "success"))
          => result' = Shows(s, "StorageFailure")]_vars

C21_HandledIffNotPending ==
  \A r \in DOMAIN reward_redemptions :
    IF Status(r) = "pending"
      THEN /\ reward_redemptions[r].handled_by = NULL
           /\ reward_redemptions[r].handled_at = NULL
      ELSE /\ reward_redemptions[r].handled_by = Parent
           /\ reward_redemptions[r].handled_at # NULL

\* the pending rows of the selected child, or of all children, oldest first
pendingFor(childIdOrAll) ==
  SelectSeq(fetchRows, LAMBDA id :
    childIdOrAll = "all" \/ reward_redemptions[id].child_id = childIdOrAll)

\* C22: what a parent page lists after it has fetched the pending redemptions
\* is exactly the rows that are pending at that moment, those of the selected
\* child when one is selected, oldest first: on the redemptions page after its
\* load and reload, on the reward-requests page after init and after the
\* refetch of approve (a fetch that yields nothing is left aside there).
C22_PendingListing ==
  [][/\ \A s \in RedemptionSessions :
          ((RedemptionsPageLoad(s) \/ reload(s)) /\ result'.res # "StorageFailure")
          => visibleItems(s)' = pendingFor(selectedChildId[s])'
     /\ \A s \in RequestSessions :
          ((RequestsInit(s) \/ ApproveRefetch(s)) /\ list'[s] # <<>>)
          => list'[s] = pendingFor("all")']_vars

\* getHistory(childId): the ids of all the ledger rows of the child, newest first
getHistory(childId) == RowsOf(childId, Len(point_transactions))

\* C23: every load of the points history page leaves the page with all and
\* only the ledger rows of the child the child pages belong to (c1), newest
\* first, and changes nothing in the backend.
C23_HistoryOfChild ==
  [][\A s \in HistorySessions :
       HistoryLoad(s)
       => /\ rows'[s] = getHistory("c1")'
          /\ UNCHANGED db]_vars

Appended == point_transactions'[Len(point_transactions')]

C25_EntryReferences ==
  \A i \in DOMAIN point_transactions :
    /\ point_transactions[i].type \in {"task_done", "task_undo"}
         => point_transactions[i].task_id \in Tasks
    /\ point_transactions[i].type \in {"spend", "redemption_spend"}
         => point_transactions[i].reward_redemption_id \in DOMAIN reward_redemptions

\* C26: the affordability decision follows the balance stored at the moment
\* of the operation: an exchangeReward call with a child selected is accepted
\* only when the stored balance covers the cost and refused only when it does
\* not, and an approve call turns a pending redemption into an approved one
\* only when the stored balance covers the cost.
C26_DecisionOnStoredBalance ==
  [][/\ \A s \in RewardSessions : \A w \in Rewards :
          (exchangeReward(s, w) /\ selectedChildId[s] # "")
          => /\ result' = Shows(s, "success")
                  => points[selectedChildId[s]] >= RequiredPoints(w)
             /\ result' = Shows(s, "refused")
                  => points[selectedChildId[s]] < RequiredPoints(w)
     /\ \A r \in DOMAIN reward_redemptions :
          (Status(r) = "pending" /\ ApproveStep(r)
             /\ reward_redemptions'[r].status = "approved")
          => Balance(r) >= Cost(r)]_vars

\* C27: every point value persisted by the create page, by the modal or by
\* the edit page is an integer of at least 1.
C27_TaskPointPositive ==
  \A p \in task_point : p \in Nat /\ p >= 1

\* the task a step of toggleDone in tab s works on: the one it is called
\* with, kept in call[s] until the return
ToggledTask(s) == IF pc[s] = "idle" THEN call'[s].task ELSE call[s].task

\* C28: every step of a toggleDone call (its start, each of its four backend
\* calls, its return) leaves the done flag of every task other than the
\* toggled one, the balance of every child other than that task's child and
\* every redemption as they were, keeps every ledger entry already written,
\* and adds ledger entries only for that task's child.
C28_ToggleFrame ==
  [][\A s \in ChildSessions :
       pc'[s] # pc[s] =>
         LET t == ToggledTask(s) IN
         /\ \A u \in Tasks \ {t} : is_done'[u] = is_done[u]
         /\ \A c \in Children \ {TaskChild(t)} : points'[c] = points[c]
         /\ reward_redemptions' = reward_redemptions
         /\ Len(point_transactions') >= Len(point_transactions)
         /\ \A i \in DOMAIN point_transactions' :
              IF i \in DOMAIN point_transactions
                THEN point_transactions'[i] = point_transactions[i]
                ELSE point_transactions'[i].child_id = TaskChild(t)]_vars

\* a toggleDone call has succeeded for c1 while a redemption exists, one task
\* is done and the other is not, and c2 still has its balance
C28_Witness ==
  /\ result = Shows("k1", "success")
  /\ Len(reward_redemptions) > 0
  /\ \E t, u \in Tasks : is_done[t] /\ ~is_done[u]
  /\ points["c1"] > 0
  /\ points["c2"] = 0

\* C29: with one tab as the only writer, whenever no toggleDone call is
\* running in it (before the first call and after every return, successful
\* or not), the tab's copy of every task's is_done and of every child's
\* points equals the stored value.
C29_LocalCopyMatches ==
  \A s \in OneChildTab :
    pc[s] = "idle" =>
      /\ \A t \in Tasks : tasks[s][t] = is_done[t]
      /\ \A c \in Children : pointsMap[s][c] = points[c]

\* C30: once ChildSwitcher has loaded, the value the page holds from its
\* onChange is "all" (only with includeAll), or the id of a child of the list
\* ChildSwitcher fetched, or the empty string when that list is empty and
\* includeAll is false.
C30_ReportedIsListed ==
  \A s \in SwitcherSessions :
    ~switcher[s].loading =>
      \/ includeAll(s) /\ selectedChildId[s] = allValue
      \/ \E i \in DOMAIN switcher[s].children :
           selectedChildId[s] = switcher[s].children[i]
      \/ ~includeAll(s) /\ switcher[s].children = <<>> /\ selectedChildId[s] = ""

====
